---- MODULE Spec2Model ----
(***************************************************************************)
(* Model of the authentication core of the PrintZest backend (src/main.py):*)
(* the phone one-time-code flow (request_otp, verify_otp), the admin       *)
(* login with its lazy bootstrap (admin_login) and the admin gate          *)
(* (require_admin), over the three store collections user, otp, session.   *)
(*                                                                         *)
(* Spec     : every request handler runs to completion as one step.        *)
(* ConcSpec : two workers run handlers whose individual store operations   *)
(*            (find_one, delete_many, create_document) interleave.         *)
(* ShopSpec : the auth handlers together with the order, product and       *)
(*            settings endpoints that sit behind the session and the gate. *)
(*                                                                         *)
(* Strings are TLA+ strings; the clock counts minutes and advances in      *)
(* steps of ClockSteps.  ObjectIds and session tokens are fresh names:     *)
(* generated ids count upwards and secrets.token_urlsafe(24) (192 random   *)
(* bits) never repeats a token.  The 6-digit code is drawn with            *)
(* repetition, as secrets.randbelow does.  last, prev, calls and minted    *)
(* are history variables: they record the calls, not the program's state.  *)
(***************************************************************************)
EXTENDS Integers, Sequences, FiniteSets, TLC

VARIABLES user, otp, session, now, nextId, calls, last, prev, minted, proc,
          order, product, settings, shopCalls

vars == <<user, otp, session, now, nextId, calls, last, prev, minted, proc,
          order, product, settings, shopCalls>>

shop == <<order, product, settings, shopCalls>>

---------------------------------------------------------------------------
(* Bounds of the model *)

MaxCalls == 3
MaxClock == 6
MaxConcCalls == 3
MaxShopCalls == 3

(* Program constants *)

MinDigits == 10
MaxDigits == 14
CodeWidth == 6
OtpTtl == 5

BootstrapPassword == "admin123"
PlaceholderPhone == "+10000000000"

(* Inputs the requests are drawn from *)

AdaPhone == "+12025550123"
ShortPhone == "12345"
NewlinePhone == "1234567890\n"

Phones == {PlaceholderPhone, AdaPhone, ShortPhone, NewlinePhone}
Names == {"Ada", "Bob"}
RandDraws == {7, 42917}
Emails == {"a@x.com", "b@x.com"}
Passwords == {BootstrapPassword, "wrong"}

(* time passes in steps around the lifetime of a code: short of it, exactly *)
(* it, and past it                                                          *)
ClockSteps == {OtpTtl - 1, OtpTtl, OtpTtl + 1}

Procs == {1, 2}

(* Inputs of the shop endpoints *)

Tokens == {"tok1", "tok2", "garbage"}
Items == <<[product_id |-> "1", title |-> "Mug", price |-> 10, size |-> "M",
            quantity |-> 2]>>
OrdersIn == {[items |-> Items, payment_mode |-> pm, delivery_location |-> "home"] :
                pm \in {"COD", "Online"}}
ProductsIn == {[title |-> "Mug", price |-> 10, in_stock |-> TRUE]}
SettingsIn == {[brand_name |-> "Acme"], [welcome_message |-> "Hello"]}
Statuses == {"shipped"}
UnknownId == "0"

---------------------------------------------------------------------------
(* Strings and conversions *)

Digits == <<"0", "1", "2", "3", "4", "5", "6", "7", "8", "9">>

IsDigit(c) == \E i \in 1..10 : Digits[i] = c

CharAt(s, i) == SubSeq(s, i, i)

RECURSIVE DecStr(_)
DecStr(n) == IF n < 10 THEN Digits[n + 1]
             ELSE DecStr(n \div 10) \o Digits[(n % 10) + 1]

RECURSIVE ZeroPad(_, _)
ZeroPad(s, w) == IF Len(s) >= w THEN s ELSE ZeroPad("0" \o s, w)

(* f"{n:06d}" *)
Format06d(n) == ZeroPad(DecStr(n), CodeWidth)

PayloadCodes == {Format06d(n) : n \in RandDraws} \cup {"7"}

RECURSIVE ParseDec(_)
ParseDec(s) == IF Len(s) = 0 THEN 0
               ELSE 10 * ParseDec(SubSeq(s, 1, Len(s) - 1))
                    + (CHOOSE d \in 0..9 : Digits[d + 1] = CharAt(s, Len(s)))

(* str(doc["_id"]) and ObjectId(text) *)
StrId(oid) == DecStr(oid)
ObjectId(text) == ParseDec(text)

(* phone_regex.match(phone) for r"^\+?\d{10,14}$": an optional "+", then k    *)
(* digits with 10 <= k <= 14, then "$", which Python matches at the end of   *)
(* the string and also just before a newline that ends the string.          *)
phone_regex_match(phone) ==
    LET start == IF Len(phone) >= 1 /\ CharAt(phone, 1) = "+" THEN 1 ELSE 0
        rest == Len(phone) - start
    IN \E k \in MinDigits..MaxDigits :
          /\ k <= rest
          /\ \A i \in 1..k : IsDigit(CharAt(phone, start + i))
          /\ \/ rest = k
             \/ rest = k + 1 /\ CharAt(phone, start + k + 1) = "\n"

(* The pattern as the specification words it: optional "+", 10 to 14 digits *)
PlusThenDigits(phone) ==
    LET start == IF Len(phone) >= 1 /\ CharAt(phone, 1) = "+" THEN 1 ELSE 0
        rest == Len(phone) - start
    IN /\ rest \in MinDigits..MaxDigits
       /\ \A i \in 1..rest : IsDigit(CharAt(phone, start + i))

---------------------------------------------------------------------------
(* The store *)

NoDoc == [missing |-> TRUE]

Min(S) == CHOOSE m \in S : \A n \in S : m <= n

(* collection.find_one(filter): the first document in insertion order among *)
(* hits, the positions of the documents the filter matches                  *)
find_one(coll, hits) == IF hits = {} THEN NoDoc ELSE coll[Min(hits)]

(* collection.delete_many(filter): coll without the positions in hits *)
delete_many(coll, hits) ==
    LET kept[i \in 0..Len(coll)] ==
            IF i = 0 THEN <<>>
            ELSE IF i \in hits THEN kept[i - 1]
            ELSE Append(kept[i - 1], coll[i])
    IN kept[Len(coll)]

(* create_document(collection, data): insert under a fresh _id *)
create_document(coll, data, oid) == Append(coll, [_id |-> oid] @@ data)

HasEmail(d) == "email" \in DOMAIN d

---------------------------------------------------------------------------
(* Responses and the call history (history variables, not program state) *)

Ok(body) == [status |-> 200] @@ body

HTTPException(code, text) == [status |-> code, detail |-> text]

InvalidPhoneFormat == HTTPException(400, "Invalid phone number format")
InvalidOrExpiredCode == HTTPException(400, "Invalid or expired OTP")
UserNotFound == HTTPException(404, "User not found")
InvalidCredentials == HTTPException(401, "Invalid credentials")
MissingToken == HTTPException(401, "Missing admin token")
InvalidToken == HTTPException(401, "Invalid token")
Forbidden == HTTPException(403, "Forbidden")

(* last, prev: the two most recently completed calls, each with the clock   *)
(* at completion and the codes of the otp documents its delete_many removed *)
Completed(call, response, deleted) ==
    /\ last' = [call |-> call, at |-> now, response |-> response, deleted |-> deleted]
    /\ prev' = last
    /\ calls' = calls + 1

(* minted: every token handed out, with the user it was handed out for *)
(* and, for verify_otp, the _id of the otp document that was matched       *)
Minted(token, u, via, otp_id) ==
    minted' = minted \cup {[token |-> token, user_id |-> StrId(u._id), via |-> via,
                            otp_id |-> otp_id]}

Codes(docs) == {docs[i].code : i \in 1..Len(docs)}

---------------------------------------------------------------------------
(* Pure parts of the handlers *)

validate_phone(phone) ==
    IF ~phone_regex_match(phone) THEN InvalidPhoneFormat ELSE Ok([phone |-> phone])

find_user_by_phone(us, phone) == find_one(us, {i \in 1..Len(us) : us[i].phone = phone})

find_user_by_id(us, oid) == find_one(us, {i \in 1..Len(us) : us[i]._id = oid})

find_admin(us, email) ==
    find_one(us, {i \in 1..Len(us) : /\ HasEmail(us[i])
                                     /\ us[i].email = email
                                     /\ us[i].role = "admin"})

find_otp_AnyCode(os, phone, code) ==
    find_one(os, {i \in 1..Len(os) : os[i].phone = phone})

find_otp(os, phone, code) ==
    find_one(os, {i \in 1..Len(os) : os[i].phone = phone /\ os[i].code = code})

find_session(ss, token) == find_one(ss, {i \in 1..Len(ss) : ss[i].token = token})

otp_of_phone(os, phone) == SelectSeq(os, LAMBDA d : d.phone = phone)

delete_otp_Kept(os, phone) == os

delete_otp(os, phone) == delete_many(os, {i \in 1..Len(os) : os[i].phone = phone})

CustomerDoc(name, phone) ==
    [name |-> name, phone |-> phone, role |-> "customer", is_active |-> TRUE]

AdminDoc(email) ==
    [name |-> "Admin", email |-> email, phone |-> PlaceholderPhone,
     role |-> "admin", is_active |-> TRUE]

OtpDoc(phone, code, expires) ==
    [phone |-> phone, code |-> code, expires_at |-> expires]

SessionDoc_Orphan(u, token, clock) ==
    [user_id |-> StrId(u._id + 1), token |-> token, created_at |-> clock]

SessionDoc(u, token, clock) ==
    [user_id |-> StrId(u._id), token |-> token, created_at |-> clock]

(* request_otp, lines 103-110: insert the customer unless the phone is known *)
upsert_customer_Renames(us, name, phone, oid) ==
    IF find_user_by_phone(us, phone) = NoDoc
    THEN create_document(us, CustomerDoc(name, phone), oid)
    ELSE [i \in 1..Len(us) |-> IF us[i].phone = phone
                                THEN [us[i] EXCEPT !.name = name] ELSE us[i]]

upsert_customer(us, name, phone, oid) ==
    IF find_user_by_phone(us, phone) = NoDoc
    THEN create_document(us, CustomerDoc(name, phone), oid)
    ELSE us

otp_expiry(clock) == clock + OtpTtl

OtpRejected_NoExpiry(o, clock) == o = NoDoc

OtpRejected(o, clock) == o = NoDoc \/ o.expires_at < clock

PasswordOk_Any(password) == TRUE

PasswordOk(password) == password = BootstrapPassword

(* admin_login, lines 138-145: insert the admin when none has the email and *)
(* the password is the bootstrap password                                   *)
bootstrap_user_Eager(us, email, password, oid) ==
    IF find_admin(us, email) = NoDoc
    THEN create_document(us, AdminDoc(email), oid)
    ELSE us

bootstrap_user(us, email, password, oid) ==
    IF find_admin(us, email) = NoDoc /\ PasswordOk(password)
    THEN create_document(us, AdminDoc(email), oid)
    ELSE us

NotAdmin_AnyRole(u) == u = NoDoc

NotAdmin(u) == u = NoDoc \/ u.role # "admin"

(* secrets.token_urlsafe(24): a token no session holds yet *)
token_urlsafe_Fixed(ss) == "tok1"

token_urlsafe(ss) == "tok" \o DecStr(Len(ss) + 1)

UserSummary(u) ==
    [id |-> StrId(u._id), name |-> u.name, phone |-> u.phone, role |-> u.role]

(* the session lookup that opens require_admin, place_order and my_orders *)
resolve_UnknownForbidden(ss, authorization) ==
    IF ~authorization.present \/ authorization.value = ""
    THEN MissingToken
    ELSE LET s == find_session(ss, authorization.value)
         IN IF s = NoDoc THEN Forbidden ELSE Ok([user_id |-> s.user_id])

resolve(ss, authorization) ==
    IF ~authorization.present \/ authorization.value = ""
    THEN MissingToken
    ELSE LET s == find_session(ss, authorization.value)
         IN IF s = NoDoc THEN InvalidToken ELSE Ok([user_id |-> s.user_id])

require_admin_in(us, ss, authorization) ==
    LET r == resolve(ss, authorization)
    IN IF r.status # 200 THEN r
       ELSE LET u == find_user_by_id(us, ObjectId(r.user_id))
            IN IF NotAdmin(u) THEN Forbidden ELSE Ok([admin_id |-> StrId(u._id)])

require_admin(authorization) == require_admin_in(user, session, authorization)

Bearer(token) == [present |-> TRUE, value |-> token]
NoHeader == [present |-> FALSE]

Headers == {NoHeader, Bearer("")} \cup {Bearer(t) : t \in Tokens}

(* the header values the shop endpoints are called with *)
ShopHeaders == {NoHeader} \cup {Bearer(t) : t \in Tokens}

---------------------------------------------------------------------------
(* Spec: each handler as one step *)

RequestOtpCall(phone) == [op |-> "request_otp", phone |-> phone]
VerifyOtpCall(phone, code) == [op |-> "verify_otp", phone |-> phone, code |-> code]
AdminLoginCall(email, password) ==
    [op |-> "admin_login", email |-> email, password |-> password]

request_otp(name, phone, n) ==
    LET v == validate_phone(phone)
        found == find_user_by_phone(user, phone)
        users1 == upsert_customer(user, name, phone, nextId)
        id1 == IF found = NoDoc THEN nextId + 1 ELSE nextId
        code == Format06d(n)
        expires == otp_expiry(now)
    IN /\ calls < MaxCalls
       /\ UNCHANGED <<session, now, minted, proc>>
       /\ UNCHANGED shop
       /\ IF v.status # 200
          THEN /\ UNCHANGED <<user, otp, nextId>>
               /\ Completed(RequestOtpCall(phone), v, {})
          ELSE /\ user' = users1
               /\ otp' = create_document(delete_otp(otp, phone),
                                         OtpDoc(phone, code, expires), id1)
               /\ nextId' = id1 + 1
               /\ Completed(RequestOtpCall(phone),
                            Ok([message |-> "OTP sent", demo_code |-> code]),
                            Codes(otp_of_phone(otp, phone)))

verify_otp(phone, code) ==
    LET v == validate_phone(phone)
        o == find_otp(otp, phone, code)
        u == find_user_by_phone(user, phone)
        token == token_urlsafe(session)
    IN /\ calls < MaxCalls
       /\ UNCHANGED <<user, now, proc>>
       /\ UNCHANGED shop
       /\ IF v.status # 200
          THEN /\ UNCHANGED <<otp, session, nextId, minted>>
               /\ Completed(VerifyOtpCall(phone, code), v, {})
          ELSE IF OtpRejected(o, now)
          THEN /\ UNCHANGED <<otp, session, nextId, minted>>
               /\ Completed(VerifyOtpCall(phone, code), InvalidOrExpiredCode, {})
          ELSE IF u = NoDoc
          THEN /\ UNCHANGED <<otp, session, nextId, minted>>
               /\ Completed(VerifyOtpCall(phone, code), UserNotFound, {})
          ELSE /\ session' = create_document(session, SessionDoc(u, token, now), nextId)
               /\ nextId' = nextId + 1
               /\ otp' = delete_otp(otp, phone)
               /\ Minted(token, u, "verify_otp", o._id)
               /\ Completed(VerifyOtpCall(phone, code),
                            Ok([token |-> token, user |-> UserSummary(u)]),
                            Codes(otp_of_phone(otp, phone)))

admin_login(email, password) ==
    LET existing == find_admin(user, email)
        bootstrap == existing = NoDoc
        uid == StrId(nextId)
        users1 == bootstrap_user(user, email, password, nextId)
        id1 == IF bootstrap THEN nextId + 1 ELSE nextId
        admin == IF bootstrap THEN find_user_by_id(users1, ObjectId(uid)) ELSE existing
        token == token_urlsafe(session)
    IN /\ calls < MaxCalls
       /\ UNCHANGED <<otp, now, proc>>
       /\ UNCHANGED shop
       /\ IF ~PasswordOk(password)
          THEN /\ user' = users1
               /\ UNCHANGED <<session, nextId, minted>>
               /\ Completed(AdminLoginCall(email, password), InvalidCredentials, {})
          ELSE /\ user' = users1
               /\ session' = create_document(session, SessionDoc(admin, token, now), id1)
               /\ nextId' = id1 + 1
               /\ Minted(token, admin, "admin_login", 0)
               /\ Completed(AdminLoginCall(email, password), Ok([token |-> token]), {})

GateCall(authorization) == [op |-> "require_admin", authorization |-> authorization]

(* a request to an endpoint that depends on require_admin, up to the gate *)
gate(authorization) ==
    /\ calls < MaxCalls
    /\ Completed(GateCall(authorization), require_admin(authorization), {})
    /\ UNCHANGED <<user, otp, session, now, nextId, minted, proc>>
    /\ UNCHANGED shop

(* the clock advances by d minutes *)
Tick(d) ==
    /\ now + d <= MaxClock
    /\ now' = now + d
    /\ UNCHANGED <<user, otp, session, nextId, calls, last, prev, minted, proc>>
    /\ UNCHANGED shop

NoCall == [call |-> [op |-> "none"], at |-> 0, response |-> [status |-> 0], deleted |-> {}]

Idle == [pc |-> "idle"]

Init ==
    /\ user = <<>>
    /\ otp = <<>>
    /\ session = <<>>
    /\ now = 0
    /\ nextId = 1
    /\ calls = 0
    /\ last = NoCall
    /\ prev = NoCall
    /\ minted = {}
    /\ proc = [p \in Procs |-> Idle]
    /\ order = <<>>
    /\ product = <<>>
    /\ settings = <<>>
    /\ shopCalls = 0

Next ==
    \/ \E name \in Names, phone \in Phones, n \in RandDraws : request_otp(name, phone, n)
    \/ \E phone \in Phones, code \in PayloadCodes : verify_otp(phone, code)
    \/ \E email \in Emails, password \in Passwords : admin_login(email, password)
    \/ \E authorization \in Headers : gate(authorization)
    \/ \E d \in ClockSteps : Tick(d)

Spec == Init /\ [][Next]_vars

---------------------------------------------------------------------------
(* The order, product and settings endpoints *)

MissingSession == HTTPException(401, "Missing session token")
InvalidSession == HTTPException(401, "Invalid session")

(* place_order and my_orders, lines 183-188 and 203-207 *)
session_of(ss, authorization) ==
    IF ~authorization.present \/ authorization.value = ""
    THEN MissingSession
    ELSE LET s == find_session(ss, authorization.value)
         IN IF s = NoDoc THEN InvalidSession ELSE Ok([user_id |-> s.user_id])

RECURSIVE total_amount(_)
total_amount(items) ==
    IF items = <<>> THEN 0
    ELSE Head(items).price * Head(items).quantity + total_amount(Tail(items))

OrderDoc(user_id, data) ==
    [user_id |-> user_id, items |-> data.items, payment_mode |-> data.payment_mode,
     delivery_location |-> data.delivery_location,
     status |-> IF data.payment_mode = "COD" THEN "pending" ELSE "paid",
     total_amount |-> total_amount(data.items)]

(* to_str_id(doc) *)
to_str_id(doc) ==
    [f \in (DOMAIN doc \ {"_id"}) \cup {"id"} |-> IF f = "id" THEN StrId(doc._id) ELSE doc[f]]

Reverse(seq) == [i \in 1..Len(seq) |-> seq[Len(seq) + 1 - i]]

(* db["order"].find({"user_id": ...}).sort("created_at", -1), newest first *)
orders_of_Anyone(os, user_id) == Reverse([i \in 1..Len(os) |-> to_str_id(os[i])])

orders_of(os, user_id) ==
    LET mine == SelectSeq(os, LAMBDA d : d.user_id = user_id)
    IN Reverse([i \in 1..Len(mine) |-> to_str_id(mine[i])])

(* update_one({"_id": ...}, {"$set": data}): the first match gets data's fields *)
update_one(coll, oid, data) ==
    [i \in 1..Len(coll) |-> IF coll[i]._id = oid THEN data @@ coll[i] ELSE coll[i]]

(* delete_one({"_id": ...}) *)
delete_one(coll, oid) == delete_many(coll, {i \in 1..Len(coll) : coll[i]._id = oid})

(* the ids a client can name: those of the stored documents and one of none *)
IdsOf(coll) == {StrId(coll[i]._id) : i \in 1..Len(coll)} \cup {UnknownId}

DefaultSettings ==
    [brand_name |-> "PrintZest", welcome_message |-> "Quality prints, fast delivery."]

ShopDone(call, response) ==
    /\ last' = [call |-> call, at |-> now, response |-> response, deleted |-> {}]
    /\ prev' = last
    /\ shopCalls' = shopCalls + 1

AuthKept == UNCHANGED <<user, otp, session, now, calls, minted, proc>>

place_order(authorization, data) ==
    LET call == [op |-> "place_order", authorization |-> authorization]
        r == session_of(session, authorization)
        doc == [_id |-> nextId] @@ OrderDoc(r.user_id, data)
    IN /\ shopCalls < MaxShopCalls
       /\ AuthKept
       /\ UNCHANGED <<product, settings>>
       /\ IF r.status # 200
          THEN /\ UNCHANGED <<order, nextId>>
               /\ ShopDone(call, r)
          ELSE /\ order' = create_document(order, OrderDoc(r.user_id, data), nextId)
               /\ nextId' = nextId + 1
               /\ ShopDone(call, Ok([order |-> to_str_id(doc)]))

my_orders(authorization) ==
    LET call == [op |-> "my_orders", authorization |-> authorization]
        r == session_of(session, authorization)
    IN /\ shopCalls < MaxShopCalls
       /\ AuthKept
       /\ UNCHANGED <<order, product, settings, nextId>>
       /\ IF r.status # 200
          THEN ShopDone(call, r)
          ELSE ShopDone(call, Ok([orders |-> orders_of(order, r.user_id)]))

create_product(authorization, data) ==
    LET call == [op |-> "create_product", authorization |-> authorization]
        g == require_admin(authorization)
        doc == [_id |-> nextId] @@ data
    IN /\ shopCalls < MaxShopCalls
       /\ AuthKept
       /\ UNCHANGED <<order, settings>>
       /\ IF g.status # 200
          THEN /\ UNCHANGED <<product, nextId>>
               /\ ShopDone(call, g)
          ELSE /\ product' = create_document(product, data, nextId)
               /\ nextId' = nextId + 1
               /\ ShopDone(call, Ok([product |-> to_str_id(doc)]))

delete_product(authorization, product_id) ==
    LET call == [op |-> "delete_product", authorization |-> authorization]
        g == require_admin(authorization)
    IN /\ shopCalls < MaxShopCalls
       /\ AuthKept
       /\ UNCHANGED <<order, settings, nextId>>
       /\ IF g.status # 200
          THEN /\ UNCHANGED product
               /\ ShopDone(call, g)
          ELSE /\ product' = delete_one(product, ObjectId(product_id))
               /\ ShopDone(call, Ok([success |-> TRUE]))

update_order_status(authorization, order_id, status) ==
    LET call == [op |-> "update_order_status", authorization |-> authorization]
        g == require_admin(authorization)
    IN /\ shopCalls < MaxShopCalls
       /\ AuthKept
       /\ UNCHANGED <<product, settings, nextId>>
       /\ IF g.status # 200
          THEN /\ UNCHANGED order
               /\ ShopDone(call, g)
          ELSE /\ order' = update_one(order, ObjectId(order_id),
                                      [status |-> status, updated_at |-> now])
               /\ ShopDone(call, Ok([success |-> TRUE]))

set_settings(authorization, payload) ==
    LET call == [op |-> "set_settings", authorization |-> authorization]
        g == require_admin(authorization)
        s == find_one(settings, 1..Len(settings))
        doc == IF s = NoDoc THEN [_id |-> nextId] @@ payload ELSE payload @@ s
    IN /\ shopCalls < MaxShopCalls
       /\ AuthKept
       /\ UNCHANGED <<order, product>>
       /\ IF g.status # 200
          THEN /\ UNCHANGED <<settings, nextId>>
               /\ ShopDone(call, g)
          ELSE /\ IF s = NoDoc
                  THEN /\ settings' = create_document(settings, payload, nextId)
                       /\ nextId' = nextId + 1
                  ELSE /\ settings' = update_one(settings, s._id, payload)
                       /\ UNCHANGED nextId
               /\ ShopDone(call, Ok([settings |-> to_str_id(doc)]))

get_settings ==
    LET call == [op |-> "get_settings", authorization |-> NoHeader]
        s == find_one(settings, 1..Len(settings))
        doc == IF s = NoDoc THEN [_id |-> nextId] @@ DefaultSettings ELSE s
    IN /\ shopCalls < MaxShopCalls
       /\ AuthKept
       /\ UNCHANGED <<order, product>>
       /\ IF s = NoDoc
          THEN /\ settings' = create_document(settings, DefaultSettings, nextId)
               /\ nextId' = nextId + 1
          ELSE UNCHANGED <<settings, nextId>>
       /\ ShopDone(call, Ok([settings |-> to_str_id(doc)]))

ShopNext ==
    \/ \E name \in Names : request_otp(name, AdaPhone, 7)
    \/ verify_otp(AdaPhone, Format06d(7))
    \/ admin_login("a@x.com", BootstrapPassword)
    \/ \E authorization \in ShopHeaders : gate(authorization)
    \/ \E authorization \in ShopHeaders, data \in OrdersIn : place_order(authorization, data)
    \/ \E authorization \in ShopHeaders : my_orders(authorization)
    \/ \E authorization \in ShopHeaders, data \in ProductsIn : create_product(authorization, data)
    \/ \E authorization \in ShopHeaders, id \in IdsOf(product) : delete_product(authorization, id)
    \/ \E authorization \in ShopHeaders, id \in IdsOf(order), status \in Statuses :
          update_order_status(authorization, id, status)
    \/ \E authorization \in ShopHeaders, payload \in SettingsIn :
          set_settings(authorization, payload)
    \/ get_settings

ShopSpec == Init /\ [][ShopNext]_vars

---------------------------------------------------------------------------
(* ConcSpec: the handlers of two workers, one store operation per step.    *)
(* proc[p] holds the worker's position (pc) and the handler's locals.      *)
(* The requests overlap within one reading of the clock: expiry is the     *)
(* subject of Spec, interleaving the subject of ConcSpec.                  *)

Busy == {p \in Procs : proc[p].pc # "idle"}

CanStart(p) ==
    /\ proc[p].pc = "idle"
    /\ calls + Cardinality(Busy) < MaxConcCalls

At(p, pc) == proc[p].pc = pc

Goto(p, locals) == proc' = [proc EXCEPT ![p] = locals]

Return(p, call, response, deleted) ==
    /\ proc' = [proc EXCEPT ![p] = Idle]
    /\ Completed(call, response, deleted)

Pending == UNCHANGED <<calls, last, prev>>

(* request_otp, lines 101-103: validate_phone, find_one on user *)
ro_find_user(p, name, phone) ==
    LET v == validate_phone(phone)
        found == find_user_by_phone(user, phone)
    IN /\ CanStart(p)
       /\ UNCHANGED <<user, otp, session, now, nextId, minted>>
       /\ UNCHANGED shop
       /\ IF v.status # 200
          THEN Return(p, RequestOtpCall(phone), v, {})
          ELSE /\ Pending
               /\ Goto(p, [pc |-> IF found = NoDoc THEN "ro_insert_user" ELSE "ro_delete",
                           name |-> name, phone |-> phone])

(* lines 104-110: create_document on user *)
ro_insert_user(p) ==
    /\ At(p, "ro_insert_user")
    /\ user' = create_document(user, CustomerDoc(proc[p].name, proc[p].phone), nextId)
    /\ nextId' = nextId + 1
    /\ Goto(p, [proc[p] EXCEPT !.pc = "ro_delete"])
    /\ Pending
    /\ UNCHANGED <<otp, session, now, minted>>
    /\ UNCHANGED shop

(* lines 112-114: draw the code, read the clock, delete_many on otp *)
ro_delete(p, n) ==
    /\ At(p, "ro_delete")
    /\ otp' = delete_otp(otp, proc[p].phone)
    /\ Goto(p, [pc |-> "ro_insert_otp", phone |-> proc[p].phone, code |-> Format06d(n),
                expires |-> otp_expiry(now),
                deleted |-> Codes(otp_of_phone(otp, proc[p].phone))])
    /\ Pending
    /\ UNCHANGED <<user, session, now, nextId, minted>>
    /\ UNCHANGED shop

(* lines 115-117: create_document on otp, respond *)
ro_insert_otp(p) ==
    /\ At(p, "ro_insert_otp")
    /\ otp' = create_document(otp, OtpDoc(proc[p].phone, proc[p].code, proc[p].expires),
                              nextId)
    /\ nextId' = nextId + 1
    /\ Return(p, RequestOtpCall(proc[p].phone),
              Ok([message |-> "OTP sent", demo_code |-> proc[p].code]), proc[p].deleted)
    /\ UNCHANGED <<user, session, now, minted>>
    /\ UNCHANGED shop

(* verify_otp, lines 122-125: validate_phone, find_one on otp, expiry check *)
vo_find_otp(p, phone, code) ==
    LET v == validate_phone(phone)
        o == find_otp(otp, phone, code)
    IN /\ CanStart(p)
       /\ UNCHANGED <<user, otp, session, now, nextId, minted>>
       /\ UNCHANGED shop
       /\ IF v.status # 200
          THEN Return(p, VerifyOtpCall(phone, code), v, {})
          ELSE IF OtpRejected(o, now)
          THEN Return(p, VerifyOtpCall(phone, code), InvalidOrExpiredCode, {})
          ELSE /\ Pending
               /\ Goto(p, [pc |-> "vo_find_user", phone |-> phone, code |-> code,
                           otp_id |-> o._id])

(* lines 126-128: find_one on user *)
vo_find_user(p) ==
    LET u == find_user_by_phone(user, proc[p].phone)
    IN /\ At(p, "vo_find_user")
       /\ UNCHANGED <<user, otp, session, now, nextId, minted>>
       /\ UNCHANGED shop
       /\ IF u = NoDoc
          THEN Return(p, VerifyOtpCall(proc[p].phone, proc[p].code), UserNotFound, {})
          ELSE /\ Pending
               /\ Goto(p, [pc |-> "vo_insert_session", phone |-> proc[p].phone,
                           code |-> proc[p].code, otp_id |-> proc[p].otp_id, u |-> u])

(* lines 129-130: draw the token, create_document on session *)
vo_insert_session(p) ==
    LET token == token_urlsafe(session)
    IN /\ At(p, "vo_insert_session")
       /\ session' = create_document(session, SessionDoc(proc[p].u, token, now), nextId)
       /\ nextId' = nextId + 1
       /\ Minted(token, proc[p].u, "verify_otp", proc[p].otp_id)
       /\ Goto(p, [pc |-> "vo_delete", phone |-> proc[p].phone, code |-> proc[p].code,
                   u |-> proc[p].u, token |-> token])
       /\ Pending
       /\ UNCHANGED <<user, otp, now>>
       /\ UNCHANGED shop

(* lines 131-132: delete_many on otp, respond *)
vo_delete(p) ==
    /\ At(p, "vo_delete")
    /\ otp' = delete_otp(otp, proc[p].phone)
    /\ Return(p, VerifyOtpCall(proc[p].phone, proc[p].code),
              Ok([token |-> proc[p].token, user |-> UserSummary(proc[p].u)]),
              Codes(otp_of_phone(otp, proc[p].phone)))
    /\ UNCHANGED <<user, session, now, nextId, minted>>
    /\ UNCHANGED shop

(* admin_login, lines 138-149: find_one on user, the password checks *)
al_find_admin(p, email, password) ==
    LET existing == find_admin(user, email)
    IN /\ CanStart(p)
       /\ UNCHANGED <<user, otp, session, now, nextId, minted>>
       /\ UNCHANGED shop
       /\ IF ~PasswordOk(password)
          THEN Return(p, AdminLoginCall(email, password), InvalidCredentials, {})
          ELSE /\ Pending
               /\ IF existing = NoDoc
                  THEN Goto(p, [pc |-> "al_insert_user", email |-> email,
                                password |-> password])
                  ELSE Goto(p, [pc |-> "al_insert_session", email |-> email,
                                password |-> password, admin |-> existing])

(* line 142: create_document on user *)
al_insert_user(p) ==
    /\ At(p, "al_insert_user")
    /\ user' = create_document(user, AdminDoc(proc[p].email), nextId)
    /\ nextId' = nextId + 1
    /\ Goto(p, [pc |-> "al_find_created", email |-> proc[p].email,
                password |-> proc[p].password, uid |-> StrId(nextId)])
    /\ Pending
    /\ UNCHANGED <<otp, session, now, minted>>
    /\ UNCHANGED shop

(* line 143: find_one on user by the new id *)
al_find_created(p) ==
    /\ At(p, "al_find_created")
    /\ Goto(p, [pc |-> "al_insert_session", email |-> proc[p].email,
                password |-> proc[p].password,
                admin |-> find_user_by_id(user, ObjectId(proc[p].uid))])
    /\ Pending
    /\ UNCHANGED <<user, otp, session, now, nextId, minted>>
    /\ UNCHANGED shop

(* lines 150-152: draw the token, create_document on session, respond *)
al_insert_session(p) ==
    LET token == token_urlsafe(session)
    IN /\ At(p, "al_insert_session")
       /\ session' = create_document(session, SessionDoc(proc[p].admin, token, now), nextId)
       /\ nextId' = nextId + 1
       /\ Minted(token, proc[p].admin, "admin_login", 0)
       /\ Return(p, AdminLoginCall(proc[p].email, proc[p].password),
                 Ok([token |-> token]), {})
       /\ UNCHANGED <<user, otp, now>>
       /\ UNCHANGED shop

ConcNext ==
    \/ \E p \in Procs, name \in Names, phone \in Phones : ro_find_user(p, name, phone)
    \/ \E p \in Procs : ro_insert_user(p)
    \/ \E p \in Procs, n \in RandDraws : ro_delete(p, n)
    \/ \E p \in Procs : ro_insert_otp(p)
    \/ \E p \in Procs, phone \in Phones, code \in PayloadCodes : vo_find_otp(p, phone, code)
    \/ \E p \in Procs : vo_find_user(p)
    \/ \E p \in Procs : vo_insert_session(p)
    \/ \E p \in Procs : vo_delete(p)
    \/ \E p \in Procs, email \in Emails, password \in Passwords :
          al_find_admin(p, email, password)
    \/ \E p \in Procs : al_insert_user(p)
    \/ \E p \in Procs : al_find_created(p)
    \/ \E p \in Procs : al_insert_session(p)

ConcSpec == Init /\ [][ConcNext]_vars

---------------------------------------------------------------------------
(* Properties *)

CallDone == calls' = calls + 1

Issued(h) == h.call.op = "request_otp" /\ h.response.status = 200

Verified(h) == h.call.op = "verify_otp" /\ h.response.status = 200

Expiry(h) == h.at + OtpTtl

UsersWithPhone(us, phone) == {us[i]._id : i \in {j \in 1..Len(us) : us[j].phone = phone}}

(* the step appends exactly one session, for token, owned by a user with phone *)
MintsOneSessionFor(phone, token) ==
    /\ Len(session') = Len(session) + 1
    /\ SubSeq(session', 1, Len(session)) = session
    /\ session'[Len(session')].token = token
    /\ ObjectId(session'[Len(session')].user_id) \in UsersWithPhone(user', phone)

(* C1: issue(name, phone) followed, with no request in between and before   *)
(* the expiry, by verify(phone, returned code) succeeds and mints exactly   *)
(* one session, owned by the user with that phone; a second verify(phone,   *)
(* same code) right after it fails with InvalidOrExpiredCode and mints no   *)
(* session.                                                                 *)
C1_IssueVerifyOnce ==
    [][/\ ( /\ Issued(last)
            /\ CallDone
            /\ last'.call = VerifyOtpCall(last.call.phone, last.response.demo_code)
            /\ now < Expiry(last) )
          => /\ last'.response.status = 200
             /\ MintsOneSessionFor(last.call.phone, last'.response.token)
       /\ ( /\ Issued(prev)
            /\ Verified(last)
            /\ last.call = VerifyOtpCall(prev.call.phone, prev.response.demo_code)
            /\ CallDone
            /\ last'.call = last.call )
          => /\ last'.response = InvalidOrExpiredCode
             /\ session' = session]_vars

C1_Witness ==
    /\ Verified(prev)
    /\ prev.deleted = {prev.call.code}
    /\ last.call = prev.call
    /\ last.response = InvalidOrExpiredCode
    /\ find_session(session, prev.response.token) # NoDoc

(* C2: after two issues in succession for one phone returning c1 then c2    *)
(* with c1 # c2, verify(phone, c1) fails with InvalidOrExpiredCode and      *)
(* verify(phone, c2) before the expiry succeeds.                            *)
C2_SecondIssueInvalidatesFirst ==
    [][( /\ Issued(prev)
         /\ Issued(last)
         /\ prev.call.phone = last.call.phone
         /\ prev.response.demo_code # last.response.demo_code
         /\ CallDone
         /\ last'.call.op = "verify_otp"
         /\ last'.call.phone = last.call.phone )
       => /\ last'.call.code = prev.response.demo_code
             => last'.response = InvalidOrExpiredCode
          /\ (last'.call.code = last.response.demo_code /\ now < Expiry(last))
             => last'.response.status = 200]_vars

C2_Witness ==
    /\ Issued(prev)
    /\ prev.deleted # {}
    /\ prev.response.demo_code \notin prev.deleted
    /\ last.call.op = "verify_otp"
    /\ last.call.phone = prev.call.phone
    /\ last.call.code \in prev.deleted
    /\ last.response = InvalidOrExpiredCode

(* an issue is directly followed by a verify of the phone and code it returned *)
VerifiesIssued ==
    /\ Issued(last)
    /\ CallDone
    /\ last'.call = VerifyOtpCall(last.call.phone, last.response.demo_code)

(* C3, as claimed: verify at any clock value >= issue time + 5 minutes,     *)
(* the value issue time + 5 minutes included, fails with                    *)
(* InvalidOrExpiredCode and mints no session although the record matches.   *)
C3_Original ==
    [][(VerifiesIssued /\ now >= Expiry(last))
       => /\ last'.response = InvalidOrExpiredCode
          /\ session' = session]_vars

(* C3, amended: verify at a clock value strictly greater than issue time +  *)
(* 5 minutes fails with InvalidOrExpiredCode and mints no session although  *)
(* the stored record matches (phone, code).                                 *)
C3_ExpiredCodeRejected ==
    [][(VerifiesIssued /\ now > Expiry(last))
       => /\ last'.response = InvalidOrExpiredCode
          /\ session' = session]_vars

C3_Witness ==
    /\ Issued(prev)
    /\ last.call = VerifyOtpCall(prev.call.phone, prev.response.demo_code)
    /\ last.at > Expiry(prev)
    /\ find_otp(otp, last.call.phone, last.call.code) # NoDoc
    /\ last.response = InvalidOrExpiredCode

(* C4: the otp collection holds at most one record per phone in every       *)
(* state, also when the store operations of concurrent requests interleave. *)
C4_OneOtpPerPhone ==
    \A i, j \in 1..Len(otp) : otp[i].phone = otp[j].phone => i = j

(* C5, as claimed: after any verify with a well-formed phone has completed, *)
(* succeeded or failed, no otp record for that phone remains.               *)
C5_Original ==
    (last.call.op = "verify_otp" /\ last.response # InvalidPhoneFormat)
    => otp_of_phone(otp, last.call.phone) = <<>>

(* C5, amended: after a verify that succeeds no otp record for that phone   *)
(* remains; a verify that fails leaves the otp collection as it was.        *)
C5_VerifyCleansOnSuccess ==
    [][(CallDone /\ last'.call.op = "verify_otp")
       => IF last'.response.status = 200
          THEN otp_of_phone(otp', last'.call.phone) = <<>>
          ELSE otp' = otp]_vars

C5_Witness ==
    /\ Verified(last)
    /\ last.deleted # {}
    /\ otp_of_phone(otp, last.call.phone) = <<>>

UserOf(s) == find_user_by_id(user, ObjectId(s.user_id))

Sessions == {session[i] : i \in 1..Len(session)}

(* C6: for every session in the store, the admin gate answers Forbidden     *)
(* when the session's user is a customer, and succeeds with that user's id  *)
(* when the session's user is an admin.                                     *)
C6_GateByRole ==
    \A s \in Sessions :
        /\ UserOf(s) # NoDoc
        /\ UserOf(s).role = "customer" => require_admin(Bearer(s.token)) = Forbidden
        /\ UserOf(s).role = "admin"
           => require_admin(Bearer(s.token)) = Ok([admin_id |-> StrId(UserOf(s)._id)])

C6_Witness ==
    /\ \E s \in Sessions : UserOf(s).role = "customer"
    /\ \E s \in Sessions : UserOf(s).role = "admin"

TokenValues == {"tok" \o DecStr(k) : k \in 1..(MaxCalls + 1)} \cup {"garbage"}

MintedTokens == {m.token : m \in minted}

(* C7: every token ever minted resolves to the user id it was minted for,   *)
(* and every token value never minted fails with InvalidToken (401).        *)
C7_ResolveMinted ==
    /\ \A m \in minted : resolve(session, Bearer(m.token)) = Ok([user_id |-> m.user_id])
    /\ \A t \in TokenValues \ MintedTokens : resolve(session, Bearer(t)) = InvalidToken

C7_Witness ==
    /\ \E m1, m2 \in minted : m1.user_id # m2.user_id /\ m1.via # m2.via
    /\ TokenValues \ MintedTokens # {}

AdminsWith(us, email) ==
    {i \in 1..Len(us) : HasEmail(us[i]) /\ us[i].email = email /\ us[i].role = "admin"}

(* C8: adminLogin(email, password) succeeds exactly when the password is    *)
(* the bootstrap constant; on success it mints one session owned by an      *)
(* admin with that email, creating exactly one admin user when none with    *)
(* that email existed and no user otherwise; with any other password it     *)
(* fails with InvalidCredentials and creates neither a user nor a session.  *)
C8_AdminLogin ==
    [][(CallDone /\ last'.call.op = "admin_login")
       => LET email == last'.call.email
              created == AdminsWith(user', email) \ AdminsWith(user, email)
          IN IF last'.call.password = BootstrapPassword
             THEN /\ last'.response.status = 200
                  /\ Len(session') = Len(session) + 1
                  /\ SubSeq(session', 1, Len(session)) = session
                  /\ session'[Len(session')].token = last'.response.token
                  /\ \E i \in AdminsWith(user', email) :
                        user'[i]._id = ObjectId(session'[Len(session')].user_id)
                  /\ IF AdminsWith(user, email) = {}
                     THEN /\ Len(user') = Len(user) + 1
                          /\ SubSeq(user', 1, Len(user)) = user
                          /\ created = {Len(user')}
                     ELSE user' = user
             ELSE /\ last'.response = InvalidCredentials
                  /\ user' = user
                  /\ session' = session]_vars

C8_Witness ==
    /\ prev.call.op = "admin_login"
    /\ prev.response.status = 200
    /\ last.call.op = "admin_login"
    /\ last.call.email = prev.call.email
    /\ last.response = InvalidCredentials
    /\ Cardinality(AdminsWith(user, last.call.email)) = 1
    /\ Len(session) = 1

(* C9: at most one user record with role customer exists for any phone in   *)
(* every state, also when concurrent issue requests for one unknown phone   *)
(* interleave.                                                              *)
C9_OneCustomerPerPhone ==
    \A i, j \in 1..Len(user) :
        (/\ user[i].role = "customer"
         /\ user[j].role = "customer"
         /\ user[i].phone = user[j].phone) => i = j

(* C10: a phone that is not an optional "+" followed by 10 to 14 digits     *)
(* makes issue and verify fail with InvalidPhoneFormat.                     *)
C10_BadPhoneRejected ==
    (/\ last.call.op \in {"request_otp", "verify_otp"}
     /\ ~PlusThenDigits(last.call.phone))
    => last.response = InvalidPhoneFormat

(* C11: an auth call that ends in an error (request_otp, verify_otp,        *)
(* admin_login or the gate answering with a status other than 200) leaves   *)
(* the user, otp and session collections exactly as they were.              *)
C11_ErrorsChangeNothing ==
    [][(CallDone /\ last'.response.status # 200)
       => (user' = user /\ otp' = otp /\ session' = session)]_vars

C11_Witness ==
    /\ prev.call.op = "admin_login"
    /\ prev.response = InvalidCredentials
    /\ last.call.op = "verify_otp"
    /\ last.response = InvalidOrExpiredCode
    /\ Len(user) = 1
    /\ Len(otp) = 1

(* the user collections the gate is asked about: the stored one, an empty   *)
(* one, and the stored one with every role turned to customer               *)
UserStates ==
    {user, <<>>, [i \in 1..Len(user) |-> [user[i] EXCEPT !.role = "customer"]]}

(* C12: whatever the users are, the gate answers 401 for an absent or empty *)
(* token and for a token matching no session; it answers 403 exactly when   *)
(* the token matches a session whose user is missing or is not an admin.    *)
C12_GateFailureOrder ==
    \A us \in UserStates, authorization \in Headers :
        LET g == require_admin_in(us, session, authorization)
            empty == ~authorization.present \/ authorization.value = ""
            s == IF empty THEN NoDoc ELSE find_session(session, authorization.value)
            u == IF s = NoDoc THEN NoDoc ELSE find_user_by_id(us, ObjectId(s.user_id))
        IN /\ empty => g = MissingToken
           /\ (~empty /\ s = NoDoc) => g = InvalidToken
           /\ g.status = 403 <=> (s # NoDoc /\ (u = NoDoc \/ u.role # "admin"))
           /\ g.status \in {200, 401, 403}

C12_Witness ==
    /\ last.call.op = "require_admin"
    /\ last.response = Forbidden
    /\ prev.call.op = "verify_otp"
    /\ prev.response.status = 200
    /\ require_admin(Bearer("garbage")) = InvalidToken
    /\ require_admin_in(<<>>, session, last.call.authorization) = Forbidden

(* C14: request_otp for a phone that already has a user record succeeds,    *)
(* adds no user and changes no attribute of any user, whatever name it is   *)
(* given; it leaves sessions and the otp records of other phones alone and  *)
(* leaves exactly one otp record for the phone, holding the returned code.  *)
C14_IssueKeepsKnownUser ==
    [][(/\ CallDone
        /\ last'.call.op = "request_otp"
        /\ UsersWithPhone(user, last'.call.phone) # {})
       => LET phone == last'.call.phone
              Others(os) == SelectSeq(os, LAMBDA d : d.phone # phone)
          IN /\ last'.response.status = 200
             /\ user' = user
             /\ session' = session
             /\ Others(otp') = Others(otp)
             /\ Codes(otp_of_phone(otp', phone)) = {last'.response.demo_code}
             /\ Len(otp_of_phone(otp', phone)) = 1]_vars

C14_Witness ==
    /\ Issued(prev)
    /\ Issued(last)
    /\ prev.call.phone = last.call.phone
    /\ last.deleted # {}
    /\ Len(user) = 1
    /\ user[1].role = "customer"
    /\ Len(otp) = 1

(* C15: no token minted by verify_otp passes the admin gate; every session  *)
(* that passes it was minted by admin_login.                                *)
C15_OtpTokenNeverAdmin ==
    \A m \in minted :
        require_admin(Bearer(m.token)).status = 200 => m.via = "admin_login"

(* C16: from one otp record at most one session is ever minted by           *)
(* verify_otp, also when two verify requests for it interleave.             *)
C16_OneSessionPerOtp ==
    \A m1, m2 \in minted :
        (/\ m1.via = "verify_otp"
         /\ m2.via = "verify_otp"
         /\ m1.otp_id = m2.otp_id) => m1 = m2

(* C17: in every state, between the store operations of interleaved        *)
(* requests too, every otp record's phone has a user with that phone and    *)
(* every session's user_id names a stored user; verify_otp never answers    *)
(* UserNotFound and the gate answers Forbidden only for a stored user.      *)
C17_NoDanglingReference ==
    /\ \A i \in 1..Len(otp) : UsersWithPhone(user, otp[i].phone) # {}
    /\ \A s \in Sessions : UserOf(s) # NoDoc
    /\ last.response # UserNotFound
    /\ \A s \in Sessions :
          require_admin(Bearer(s.token)) = Forbidden => UserOf(s).role # "admin"

C17_Witness ==
    /\ \E p \in Procs : proc[p].pc = "vo_delete"
    /\ \E p \in Procs : proc[p].pc = "ro_insert_otp"
    /\ Len(session) >= 1
    /\ Len(user) >= 2

(* C18: at most one user with role admin exists per email, also after       *)
(* interleaved admin_login requests for one email.                          *)
C18_OneAdminPerEmail ==
    \A email \in Emails : Cardinality(AdminsWith(user, email)) <= 1

(* C13: no step removes or rewrites a stored user or session, and a token   *)
(* that resolves to a user id resolves to the same user id after the step,  *)
(* for the gate's lookup and for the order endpoints' lookup alike.         *)
C13_SessionsAndUsersKept ==
    [][/\ Len(user') >= Len(user)
       /\ SubSeq(user', 1, Len(user)) = user
       /\ Len(session') >= Len(session)
       /\ SubSeq(session', 1, Len(session)) = session
       /\ \A t \in TokenValues :
             /\ resolve(session, Bearer(t)).status = 200
                => resolve(session', Bearer(t)) = resolve(session, Bearer(t))
             /\ session_of(session, Bearer(t)).status = 200
                => session_of(session', Bearer(t)) = session_of(session, Bearer(t))]_vars

C13_Witness ==
    /\ \E m1, m2 \in minted : m1.via = "verify_otp" /\ m2.via = "admin_login"
    /\ Len(order) >= 1
    /\ Len(product) >= 1
    /\ Len(settings) >= 1
    /\ \A m \in minted : resolve(session, Bearer(m.token)) = Ok([user_id |-> m.user_id])

ShopCallDone == shopCalls' = shopCalls + 1

(* the ids of the stored orders placed under user_id *)
OrderIdsOf(os, user_id) == {StrId(os[i]._id) : i \in {j \in 1..Len(os) : os[j].user_id = user_id}}

(* C19: place_order stores one new order whose user_id is that of the       *)
(* session the presented token matches; my_orders returns exactly the       *)
(* stored orders with that session's user_id, each once; with an absent or  *)
(* unmatched token both answer 401 and change no collection; no step        *)
(* changes the user_id of a stored order.                                   *)
C19_OrderOwnership ==
    [][/\ \A i \in 1..Len(order) : i <= Len(order') => order'[i].user_id = order[i].user_id
       /\ (ShopCallDone /\ last'.call.op \in {"place_order", "my_orders"})
          => LET a == last'.call.authorization
                 s == IF ~a.present \/ a.value = "" THEN NoDoc
                      ELSE find_session(session, a.value)
                 r == last'.response
             IN IF s = NoDoc
                THEN /\ r.status = 401
                     /\ UNCHANGED <<user, otp, session, order, product, settings>>
                ELSE IF last'.call.op = "place_order"
                THEN /\ r.status = 200
                     /\ Len(order') = Len(order) + 1
                     /\ SubSeq(order', 1, Len(order)) = order
                     /\ order'[Len(order')].user_id = s.user_id
                     /\ r.order.user_id = s.user_id
                     /\ r.order.id = StrId(order'[Len(order')]._id)
                ELSE /\ r.status = 200
                     /\ order' = order
                     /\ {r.orders[i].id : i \in 1..Len(r.orders)}
                           = OrderIdsOf(order, s.user_id)
                     /\ Len(r.orders) = Cardinality(OrderIdsOf(order, s.user_id))
                     /\ \A i \in 1..Len(r.orders) : r.orders[i].user_id = s.user_id]_vars

C19_Witness ==
    /\ last.call.op = "my_orders"
    /\ last.response.status = 200
    /\ Len(last.response.orders) = 1
    /\ Len(order) = 2
    /\ order[1].user_id # order[2].user_id

(* every stored order is still stored after the step, with the same status *)
StatusesKept ==
    \A i \in 1..Len(order) :
        /\ i <= Len(order')
        /\ order'[i]._id = order[i]._id
        /\ order'[i].status = order[i].status

Mutation == product' # product \/ settings' # settings \/ ~StatusesKept

(* the step is a shop request whose token passes the admin gate *)
ByAdmin ==
    /\ ShopCallDone
    /\ LET a == last'.call.authorization
           s == IF ~a.present \/ a.value = "" THEN NoDoc
                ELSE find_session(session, a.value)
       IN /\ s # NoDoc
          /\ UserOf(s) # NoDoc
          /\ UserOf(s).role = "admin"

(* get_settings, called on an empty settings collection, stores the defaults *)
SeedsDefaults ==
    /\ ShopCallDone
    /\ last'.call.op = "get_settings"
    /\ settings = <<>>
    /\ settings' = <<[_id |-> nextId] @@ DefaultSettings>>
    /\ product' = product
    /\ StatusesKept

(* C20 as stated: products, stored settings and the statuses of stored      *)
(* orders change only in a step that is a request whose token resolves to   *)
(* a session of an admin.                                                   *)
C20_Original ==
    [][Mutation => ByAdmin]_vars

(* C20: products, stored settings and the statuses of stored orders change  *)
(* only in a request whose token resolves to a session of an admin, or in a *)
(* get_settings that finds the settings collection empty and stores the     *)
(* default document; create_product, delete_product, update_order_status    *)
(* and set_settings called with any other token answer 401 or 403 and       *)
(* change nothing.                                                          *)
C20_AdminOnlyMutation ==
    [][/\ Mutation => (ByAdmin \/ SeedsDefaults)
       /\ (/\ ShopCallDone
           /\ last'.call.op \in {"create_product", "delete_product",
                                 "update_order_status", "set_settings"}
           /\ ~ByAdmin)
          => /\ last'.response.status \in {401, 403}
             /\ UNCHANGED <<user, otp, session, order, product, settings>>]_vars

C20_Witness ==
    /\ last.call.op = "set_settings"
    /\ last.response = Forbidden
    /\ prev.call.op = "get_settings"
    /\ Len(settings) = 1
    /\ settings[1].brand_name = DefaultSettings.brand_name
    /\ \E s \in Sessions : s.token = last.call.authorization.value

====
